---- MODULE Spec2Model ----
(***************************************************************************)
(* Model of the peerswap scenario runner (src/bin/peerswap.rs).            *)
(*                                                                         *)
(* main() opens a channel alice -> bob and then runs four swap sessions    *)
(* one after the other on that channel:                                    *)
(*   1 swap_out (BTC)   2 swap_in (BTC)   3 swap_out_lbtc   4 swap_in_lbtc *)
(* Every session is: balance snapshot, submit, a poll loop of at most 30   *)
(* ticks (advance the chain by one block, sleep, query the swap status),   *)
(* the per-session checks of main(), balance snapshot.                     *)
(* Every call that ends in `?` aborts main() with the error of the call.   *)
(* The lightning nodes and the two chains are external: their answers are  *)
(* inputs, drawn from small sets.                                          *)
(***************************************************************************)
EXTENDS Integers, Sequences, FiniteSets, TLC

VARIABLES
    pc,             \* position of main(): the next step to run
    cur,            \* the swap session main() is in (0 before the first)
    scid,           \* short channel id returned by open_channel ("" before)
    openTick,       \* completed iterations of open_channel's loop
    tick,           \* completed iterations of the poll loop of session cur
    advances,       \* block-generation calls made by session cur
    queries,        \* peerswap-getswap calls made by session cur
    sstate,         \* sstate[i]: state of swap session i
    lastStatus,     \* the status peerswap-getswap returned in the latest step
    result,         \* the SwapResult bound to `result` in main()
    onchain_sent,   \* the value bound to `onchain_sent` in main()
    alice_before,   \* balance snapshots of main()
    bob_before,
    alice_after,
    bob_after,
    lastBalance,    \* the get_channel_balance call of the latest step
    btcMined,       \* base-chain blocks produced for the function in progress
    lbtcMined,      \* sidechain blocks produced for the function in progress
    lastOpen,       \* the listfunds answer open_channel got in the latest step
    err,            \* the error (or panic) main() ended with
    cause           \* what made the run fail, as the environment knows it

vars == << pc, cur, scid, openTick, tick, advances, queries, sstate,
           lastStatus, result, onchain_sent, alice_before, bob_before,
           alice_after, bob_after, lastBalance, btcMined, lbtcMined,
           lastOpen, err, cause >>

----------------------------------------------------------------------------
(* Program constants                                                       *)

\* for _ in 0..30 in the four swap functions
PollBudget == 30
\* for _ in 0..60 in open_channel
OpenBudget == 60
\* amount_sat passed to every swap call of main()
Amount == 100000
\* max_premium_ppm passed to every swap call of main()
MaxPremiumPpm == 10000
\* `/ 1000` of get_channel_balance (msat to sat)
MsatPerSat == 1000
\* btc.generate_to_address(6, mine_to) of open_channel
OpenConfirmations == 6
\* generate_to_address(1, ..) and liquid_generate(1) of the poll loops
BlocksPerTick == 1

Sessions == 1..4
\* sessions 1 and 3 are swap-out, 2 and 4 are swap-in
IsOut(i) == i \in {1, 3}
\* sessions 1 and 2 settle on the base chain, 3 and 4 on the sidechain
IsBtc(i) == i \in {1, 2}

\* the premium the request allows: max_premium_ppm parts per million of amount
PremiumLimit == (Amount * MaxPremiumPpm) \div 1000000

NoVal == -1

----------------------------------------------------------------------------
(* Inputs: what the external collaborators may answer                      *)

\* a JSON field read with as_i64 / as_u64: absent, not a number, or a number
Missing == [t |-> "missing", v |-> 0]
NotNum  == [t |-> "string", v |-> 0]
Num(n)  == [t |-> "int", v |-> n]

\* serde_json::Value::as_i64().unwrap_or(0)
AsI64Or0(f) == IF f.t = "int" THEN f.v ELSE 0

\* opening_tx_hex: "" (absent: hex of no bytes, which is no transaction),
\* not hex, or a transaction with the given output values
TxEmpty   == [enc |-> "empty", outs |-> << >>]
TxNotHex  == [enc |-> "nothex", outs |-> << >>]
Tx(outs)  == [enc |-> "tx", outs |-> outs]

TxValues == {TxEmpty, TxNotHex, Tx(<< >>), Tx(<<Amount>>),
             Tx(<<Amount + PremiumLimit>>), Tx(<<Amount - 1>>)}

PremiumFields == {Missing, Num(-1), Num(0), Num(PremiumLimit),
                  Num(2 * PremiumLimit)}
FeeFields == {Missing, NotNum, Num(-5), Num(300)}

\* status["current"] of peerswap-getswap; "" stands for an absent field
StateStrings == {"", "State_SwapOutSender_AwaitTxConfirmation",
                 "State_SwapCanceled", "State_ClaimedPreimage",
                 "State_ClaimedCoop"}

\* no answer: the latest step made no status query, or the query failed
NoStatus == [current |-> "(no answer)", opening_tx_fee |-> Missing,
             premium |-> Missing, opening_tx_hex |-> TxEmpty]

\* the answers of peerswap-getswap. The program reads the data fields of a
\* status only when "current" is one of the two claimed states, so the other
\* statuses are drawn with one value of the data fields
ClaimedStrings == {"State_ClaimedPreimage", "State_ClaimedCoop"}
Statuses ==
    [current : ClaimedStrings, opening_tx_fee : FeeFields,
     premium : PremiumFields, opening_tx_hex : TxValues]
    \cup { [NoStatus EXCEPT !.current = c] : c \in StateStrings \ ClaimedStrings }

\* our_amount_msat values a channel entry of listfunds may carry
MsatValues == {200000000, 300000000, 300000999}

\* what `lightning-cli listfunds` may produce for get_channel_balance:
\*   fail      the process exits non-zero
\*   badjson   stdout is not JSON
\*   nochans   no "channels" array
\*   absent    the array has no entry with the short channel id
\*   noamount  the entry has no our_amount_msat
\*   stramount our_amount_msat is not a JSON number
\*   ok        our_amount_msat is the number msat
FundsResponses ==
    { [k |-> kk, msat |-> 0] :
        kk \in {"fail", "badjson", "nochans", "absent", "noamount", "stramount"} }
    \cup { [k |-> "ok", msat |-> m] : m \in MsatValues }

----------------------------------------------------------------------------
(* Errors                                                                  *)

\* an anyhow error (or panic): the place that built it and its text
Error(at, text) == [at |-> at, text |-> text]
NoError == Error("", "")

TimeoutError == Error("bail", "Timeout waiting for swap")

StderrError == Error("cli", "stderr")
\* the stderr of a swap request the counterpart declined
DeclinedError == Error("cli", "stderr: swap declined")

----------------------------------------------------------------------------
(* Pure functions of the program                                           *)

Ok(v)   == [ok |-> TRUE, v |-> v, e |-> NoError]
Fail(e) == [ok |-> FALSE, v |-> NoVal, e |-> e]

\* cli(): a non-zero exit is an error carrying stderr, stdout that is not
\* JSON is the serde error
CliFails(k) == k \in {"fail", "badjson"}
CliError(k) == IF k = "fail" THEN StderrError ELSE Error("serde_json", "parse")

\* get_channel_balance(): the `?` on cli(), then
\* funds["channels"].as_array().and_then(find scid)
\*      .and_then(our_amount_msat.as_u64()).unwrap_or(0) / 1000
GetChannelBalance(resp) ==
    IF CliFails(resp.k) THEN Fail(CliError(resp.k))
    ELSE IF resp.k = "ok" THEN Ok(resp.msat \div MsatPerSat)
    ELSE Ok(0 \div MsatPerSat)

\* decode_tx_output(): hex::decode, consensus::deserialize,
\* tx.output.get(vout).context("No output")?.value.to_sat()
DecodeTxOutput(tx, vout) ==
    IF tx.enc = "nothex" THEN Fail(Error("hex", "invalid hex"))
    ELSE IF tx.enc # "tx" THEN Fail(Error("consensus", "deserialize"))
    ELSE IF vout + 1 > Len(tx.outs) THEN Fail(Error("context", "No output"))
    ELSE Ok(tx.outs[vout + 1])

\* IsClaimed with the cooperative claim forgotten
IsClaimedPreimageOnly(state) ==
    state = "State_ClaimedPreimage"

\* the test of the poll loop on status["current"].as_str().unwrap_or("")
IsClaimed(state) ==
    state = "State_ClaimedPreimage" \/ state = "State_ClaimedCoop"

\* the SwapResult built when the loop returns; swap_out reads
\* data.swap_out_agreement.premium, swap_in data.swap_in_agreement.premium:
\* `premium` of a status stands for the agreement of the session's direction
BuildResult(status) ==
    [some |-> TRUE,
     onchain_fee |-> AsI64Or0(status.opening_tx_fee),
     premium |-> AsI64Or0(status.premium),
     opening_tx_hex |-> status.opening_tx_hex]

NoResult == [some |-> FALSE, onchain_fee |-> 0, premium |-> 0,
             opening_tx_hex |-> TxEmpty]

\* LoopStep with one iteration too many (0..=30)
LoopStepOffByOne(state, t) ==
    IF IsClaimed(state) THEN "return"
    ELSE IF t + 1 < PollBudget + 1 THEN "continue"
    ELSE "timeout"

\* LoopStep returning as soon as the swap is known to the node in any state
\* that is not a cancellation
LoopStepEager(state, t) ==
    IF state \notin {"", "State_SwapCanceled"} THEN "return"
    ELSE IF t + 1 < PollBudget THEN "continue"
    ELSE "timeout"

\* LoopStep testing the claimed state only once the iterations are used up
LoopStepKeepPolling(state, t) ==
    IF t + 1 < PollBudget THEN "continue"
    ELSE IF IsClaimed(state) THEN "return"
    ELSE "timeout"

\* LoopStep giving up at once on a cancelled swap
LoopStepFailFast(state, t) ==
    IF IsClaimed(state) THEN "return"
    ELSE IF state # "State_SwapCanceled" /\ t + 1 < PollBudget THEN "continue"
    ELSE "timeout"

\* what one iteration of the poll loop does after a status query answered,
\* t being the number of iterations completed before this one:
\* return the result, go round again, or fall out of `for _ in 0..30`
LoopStep(state, t) ==
    IF IsClaimed(state) THEN "return"
    ELSE IF t + 1 < PollBudget THEN "continue"
    ELSE "timeout"

\* the session state a status string stands for
MapState(state) ==
    IF state = "State_ClaimedPreimage" THEN "ClaimedPreimage"
    ELSE IF state = "State_ClaimedCoop" THEN "ClaimedCoop"
    ELSE "Pending"

Active == {"Requested", "Pending"}
Claimed == {"ClaimedPreimage", "ClaimedCoop"}

\* main() decodes output 0 of the opening transaction after swap_out and
\* swap_in, and compares it with amount + premium after swap_in only
DecodesOutput(i) == i \in {1, 2}
ComparesOutput(i) == i = 2

\* Generate producing the blocks of every session on the base chain
GenerateOnBase(i, blocks) ==
    [btc |-> blocks, lbtc |-> 0]

\* Generate asking for the confirmations of open_channel on every tick
GenerateSix(i, blocks) ==
    IF IsBtc(i) THEN [btc |-> OpenConfirmations, lbtc |-> 0]
    ELSE [btc |-> 0, lbtc |-> OpenConfirmations]

\* the blocks the advance call of session i produces on each chain:
\* swap_out and swap_in call btc.generate_to_address, swap_out_lbtc and
\* swap_in_lbtc call liquid_generate (elements-cli generatetoaddress)
Generate(i, blocks) ==
    IF IsBtc(i) THEN [btc |-> blocks, lbtc |-> 0]
    ELSE [btc |-> 0, lbtc |-> blocks]

\* the error of a failed block-generation call: bitcoincore_rpc's for
\* generate_to_address, the stderr of elements-cli for liquid_generate
AdvanceError(i) ==
    IF IsBtc(i) THEN Error("bitcoincore_rpc", "rpc") ELSE StderrError

----------------------------------------------------------------------------
(* Initial state                                                           *)

NoBalanceCall == [who |-> "", resp |-> [k |-> "none", msat |-> 0],
                  ret |-> Fail(NoError)]

Init ==
    /\ pc = "setup"
    /\ cur = 0
    /\ scid = ""
    /\ openTick = 0
    /\ tick = 0
    /\ advances = 0
    /\ queries = 0
    /\ sstate = [i \in Sessions |-> "NotStarted"]
    /\ lastStatus = NoStatus
    /\ result = NoResult
    /\ onchain_sent = NoVal
    /\ alice_before = NoVal
    /\ bob_before = NoVal
    /\ alice_after = NoVal
    /\ bob_after = NoVal
    /\ lastBalance = NoBalanceCall
    /\ btcMined = 0
    /\ lbtcMined = 0
    /\ lastOpen = ""
    /\ err = NoError
    /\ cause = ""

\* main() returns Err(e) (or panics with e); c is the cause
Abort(e, c) ==
    /\ pc' = "aborted"
    /\ err' = e
    /\ cause' = c

----------------------------------------------------------------------------
(* main(): set-up and open_channel                                         *)

\* main() up to the call of open_channel: the bitcoind client, getinfo of
\* bob, an address for alice, 101 blocks, connect
Setup ==
    /\ pc = "setup"
    /\ \E k \in {"ok", "rpc", "cli", "noid"} :
         IF k = "ok" THEN /\ pc' = "fundchannel"
                          /\ UNCHANGED << err, cause >>
         ELSE IF k = "rpc" THEN Abort(Error("bitcoincore_rpc", "rpc"), "collaborator")
         ELSE IF k = "cli" THEN Abort(StderrError, "collaborator")
         ELSE Abort(Error("unwrap", "called Option::unwrap() on a None value"),
                    "collaborator")
    /\ UNCHANGED << cur, scid, openTick, tick, advances, queries, sstate,
                    lastStatus, result, onchain_sent, alice_before, bob_before,
                    alice_after, bob_after, lastBalance,
                    btcMined, lbtcMined, lastOpen >>

\* open_channel(): fundchannel, its txid, six blocks on the base chain
FundChannel ==
    /\ pc = "fundchannel"
    /\ \E k \in {"ok", "cli", "notxid", "rpc"} :
         /\ btcMined' = IF k = "ok" THEN btcMined + OpenConfirmations
                        ELSE btcMined
         /\ IF k = "ok" THEN /\ pc' = "open_poll"
                             /\ UNCHANGED << err, cause >>
            ELSE IF k = "cli" THEN Abort(StderrError, "collaborator")
            ELSE IF k = "notxid" THEN Abort(Error("context", "No txid"), "collaborator")
            ELSE Abort(Error("bitcoincore_rpc", "rpc"), "collaborator")
    /\ openTick' = 0
    /\ UNCHANGED << cur, scid, tick, advances, queries, sstate,
                    lastStatus, result, onchain_sent, alice_before, bob_before,
                    alice_after, bob_after, lastBalance,
                    lbtcMined, lastOpen >>

\* OpenStep returning the channel with the funding txid in whatever state
OpenStepAnyState(k, t) ==
    IF CliFails(k) THEN "error"
    ELSE IF k \in {"normal", "notnormal"} THEN "return"
    ELSE IF k = "noscid" THEN "noscid"
    ELSE IF t + 1 < OpenBudget THEN "continue"
    ELSE "timeout"

\* what one iteration of open_channel's loop does with the listfunds answer:
\*   nomatch    no channel with the funding txid
\*   notnormal  the channel is there, its state is not CHANNELD_NORMAL
\*   noscid     the channel is CHANNELD_NORMAL and has no short_channel_id
\*   normal     the channel is CHANNELD_NORMAL
OpenStep(k, t) ==
    IF CliFails(k) THEN "error"
    ELSE IF k = "normal" THEN "return"
    ELSE IF k = "noscid" THEN "noscid"
    ELSE IF t + 1 < OpenBudget THEN "continue"
    ELSE "timeout"

\* one iteration of the loop of open_channel(); the loop counter is gone
\* once the function has returned
OpenPoll ==
    /\ pc = "open_poll"
    /\ \E k \in {"fail", "badjson", "nomatch", "notnormal", "noscid", "normal"} :
         LET step == OpenStep(k, openTick) IN
         /\ lastOpen' = k
         /\ scid' = IF step = "return" THEN "scid" ELSE scid
         /\ openTick' = IF step \in {"continue", "timeout"} THEN openTick + 1
                        ELSE IF step = "return" THEN 0
                        ELSE openTick
         /\ IF step = "error" THEN Abort(CliError(k), "collaborator")
            ELSE IF step = "noscid" THEN Abort(Error("context", "No scid"), "collaborator")
            ELSE IF step = "timeout"
                 THEN Abort(Error("bail", "Timeout waiting for channel"), "timeout")
            ELSE /\ pc' = IF step = "return" THEN "fund_bob" ELSE "open_poll"
                 /\ UNCHANGED << err, cause >>
    /\ UNCHANGED << cur, tick, advances, queries, sstate,
                    lastStatus, result, onchain_sent, alice_before, bob_before,
                    alice_after, bob_after, lastBalance,
                    btcMined, lbtcMined >>

\* main(): 101 blocks to bob, then alice pays bob's invoice
FundBob ==
    /\ pc = "fund_bob"
    /\ \E k \in {"ok", "rpc", "cli", "nofield"} :
         IF k = "ok" THEN /\ pc' = "before_alice"
                          /\ cur' = 1
                          /\ UNCHANGED << err, cause >>
         ELSE /\ cur' = cur
              /\ IF k = "rpc" THEN Abort(Error("bitcoincore_rpc", "rpc"), "collaborator")
                 ELSE IF k = "cli" THEN Abort(StderrError, "collaborator")
                 ELSE Abort(Error("context", "No bolt11"), "collaborator")
    /\ lastOpen' = ""
    /\ UNCHANGED << scid, openTick, tick, advances, queries, sstate,
                    lastStatus, result, onchain_sent, alice_before, bob_before,
                    alice_after, bob_after, lastBalance,
                    btcMined, lbtcMined >>

----------------------------------------------------------------------------
(* main(): one swap session                                                *)

\* a get_channel_balance call of main(): `let <var> = get_channel_balance(..)?`
\* who is asked, what listfunds answered, where main() goes on success
BalanceCall(who, resp, next) ==
    LET r == GetChannelBalance(resp) IN
    /\ lastBalance' = [who |-> who, resp |-> resp, ret |-> r]
    /\ IF r.ok THEN /\ pc' = next
                    /\ UNCHANGED << err, cause >>
       ELSE Abort(r.e, "collaborator")

\* let alice_before = get_channel_balance("alice", &scid)?
BeforeAlice ==
    /\ pc = "before_alice"
    /\ \E resp \in FundsResponses :
         /\ BalanceCall("alice", resp, "before_bob")
         /\ alice_before' = GetChannelBalance(resp).v
    /\ UNCHANGED << cur, scid, openTick, tick, advances, queries, sstate,
                    lastStatus, result, onchain_sent, bob_before,
                    alice_after, bob_after,
                    btcMined, lbtcMined, lastOpen >>

\* let bob_before = get_channel_balance("bob", &scid)?  and the println
BeforeBob ==
    /\ pc = "before_bob"
    /\ \E resp \in FundsResponses :
         /\ BalanceCall("bob", resp, "submit")
         /\ bob_before' = GetChannelBalance(resp).v
    /\ UNCHANGED << cur, scid, openTick, tick, advances, queries, sstate,
                    lastStatus, result, onchain_sent, alice_before,
                    alice_after, bob_after,
                    btcMined, lbtcMined, lastOpen >>

\* the head of swap_out / swap_in / swap_out_lbtc / swap_in_lbtc: the
\* peerswap-swap-out or peerswap-swap-in call and its "id"
\*   rejected  the counterpart declines and lightning-cli exits non-zero
\*   noid      the answer has no "id"
Submit ==
    /\ pc = "submit"
    /\ \E k \in {"ok", "fail", "badjson", "rejected", "noid"} :
         IF k = "ok"
         THEN /\ sstate' = [sstate EXCEPT ![cur] = "Requested"]
              /\ pc' = "advance"
              /\ UNCHANGED << err, cause >>
         ELSE /\ sstate' = [sstate EXCEPT ![cur] = "Failed"]
              /\ IF k = "rejected" THEN Abort(DeclinedError, "rejected")
                 ELSE IF k = "noid" THEN Abort(Error("context", "No swap id"), "collaborator")
                 ELSE Abort(CliError(k), "collaborator")
    /\ tick' = 0
    /\ advances' = 0
    /\ queries' = 0
    /\ lastBalance' = NoBalanceCall
    /\ btcMined' = 0
    /\ lbtcMined' = 0
    /\ UNCHANGED << cur, scid, openTick, lastStatus, result, onchain_sent,
                    alice_before, bob_before, alice_after, bob_after,
                    lastOpen >>

\* the first statement of a loop iteration: btc.generate_to_address(1, ..)?
\* or liquid_generate(1)?, followed by the sleep
Advance ==
    /\ pc = "advance"
    /\ advances' = advances + 1
    /\ \E ok \in BOOLEAN :
         IF ok THEN /\ pc' = "query"
                    /\ btcMined' = btcMined + Generate(cur, BlocksPerTick).btc
                    /\ lbtcMined' = lbtcMined + Generate(cur, BlocksPerTick).lbtc
                    /\ UNCHANGED << sstate, err, cause >>
         ELSE /\ sstate' = [sstate EXCEPT ![cur] = "Failed"]
              /\ Abort(AdvanceError(cur), "collaborator")
              /\ UNCHANGED << btcMined, lbtcMined >>
    /\ lastStatus' = NoStatus
    /\ UNCHANGED << cur, scid, openTick, tick, queries, result,
                    onchain_sent, alice_before, bob_before, alice_after,
                    bob_after, lastBalance,
                    lastOpen >>

\* the rest of a loop iteration: peerswap-getswap, the test of "current",
\* the return of the SwapResult, and the bail! after the last iteration
Query ==
    /\ pc = "query"
    /\ queries' = queries + 1
    /\ \/ \E k \in {"fail", "badjson"} :
            /\ sstate' = [sstate EXCEPT ![cur] = "Failed"]
            /\ Abort(CliError(k), "collaborator")
            /\ UNCHANGED << tick, lastStatus, result >>
       \/ \E status \in Statuses :
            LET step == LoopStep(status.current, tick)
                declined == \/ cause = "rejected"
                            \/ status.current = "State_SwapCanceled"
            IN
            /\ lastStatus' = status
            /\ IF step = "return"
               THEN /\ result' = BuildResult(status)
                    /\ sstate' = [sstate EXCEPT ![cur] = MapState(status.current)]
                    /\ pc' = "verify"
                    /\ cause' = ""
                    /\ UNCHANGED << tick, err >>
               ELSE IF step = "continue"
               THEN /\ tick' = tick + 1
                    /\ sstate' = [sstate EXCEPT ![cur] = MapState(status.current)]
                    /\ pc' = "advance"
                    /\ cause' = IF declined THEN "rejected" ELSE ""
                    /\ UNCHANGED << result, err >>
               ELSE /\ tick' = tick + 1
                    /\ sstate' = [sstate EXCEPT ![cur] = "Failed"]
                    /\ Abort(TimeoutError,
                             IF declined THEN "rejected" ELSE "timeout")
                    /\ UNCHANGED result
    /\ UNCHANGED << cur, scid, openTick, advances, onchain_sent,
                    alice_before, bob_before, alice_after, bob_after,
                    lastBalance,
                    btcMined, lbtcMined, lastOpen >>

\* assert_eq!(onchain_sent, 100_000 + result.premium as u64): a negative
\* premium casts to 2^64 + premium, and the sum then passes 2^64 (premiums
\* here are not below -Amount): a build with overflow checks panics, a build
\* without them wraps to Amount + premium
CompareOutput(sent, premium, checked) ==
    IF premium < 0 /\ checked THEN "overflow"
    ELSE IF sent = Amount + premium THEN "pass"
    ELSE "mismatch"

\* main() between the return of the swap function and the `after` snapshot:
\* the printlns, decode_tx_output (swap_out, swap_in), the assert_eq!
\* (swap_in), the sleep (L-BTC sessions). The swap function has returned:
\* its loop counters and its `status` are gone
Verify ==
    /\ pc = "verify"
    /\ IF ~DecodesOutput(cur)
       THEN /\ pc' = "after_alice"
            /\ UNCHANGED << onchain_sent, err, cause >>
       ELSE LET d == DecodeTxOutput(result.opening_tx_hex, 0) IN
            IF ~d.ok
            THEN /\ Abort(d.e, "undecodable")
                 /\ UNCHANGED onchain_sent
            ELSE /\ onchain_sent' = d.v
                 /\ IF ~ComparesOutput(cur)
                    THEN /\ pc' = "after_alice"
                         /\ UNCHANGED << err, cause >>
                    ELSE \E checked \in BOOLEAN :
                         LET c == CompareOutput(d.v, result.premium, checked) IN
                         IF c = "pass"
                         THEN /\ pc' = "after_alice"
                              /\ UNCHANGED << err, cause >>
                         ELSE IF c = "overflow"
                         THEN Abort(Error("panic", "attempt to add with overflow"),
                                    "overflow")
                         ELSE Abort(Error("assert_eq", "On-chain amount mismatch"),
                                    "mismatch")
    /\ tick' = 0
    /\ advances' = 0
    /\ queries' = 0
    /\ lastStatus' = NoStatus
    /\ btcMined' = 0
    /\ lbtcMined' = 0
    /\ UNCHANGED << cur, scid, openTick, sstate, result, alice_before,
                    bob_before, alice_after, bob_after, lastBalance,
                    lastOpen >>

\* let alice_after = get_channel_balance("alice", &scid)?
AfterAlice ==
    /\ pc = "after_alice"
    /\ \E resp \in FundsResponses :
         /\ BalanceCall("alice", resp, "after_bob")
         /\ alice_after' = GetChannelBalance(resp).v
    /\ UNCHANGED << cur, scid, openTick, tick, advances, queries, sstate,
                    lastStatus, result, onchain_sent, alice_before,
                    bob_before, bob_after,
                    btcMined, lbtcMined, lastOpen >>

\* let bob_after = get_channel_balance("bob", &scid)?
AfterBob ==
    /\ pc = "after_bob"
    /\ \E resp \in FundsResponses :
         /\ BalanceCall("bob", resp, "report")
         /\ bob_after' = GetChannelBalance(resp).v
    /\ UNCHANGED << cur, scid, openTick, tick, advances, queries, sstate,
                    lastStatus, result, onchain_sent, alice_before,
                    bob_before, alice_after,
                    btcMined, lbtcMined, lastOpen >>

\* where main() goes after the session i
NextStep(i) ==
    IF i = 2 THEN "liquid_setup"
    ELSE IF i = 4 THEN "done"
    ELSE "before_alice"

\* the printlns of "After:" and "Delta:"; main() then goes on to the next
\* session, whose `let`s shadow the bindings of this one: nothing reads the
\* shadowed values again
Report ==
    /\ pc = "report"
    /\ pc' = NextStep(cur)
    /\ cur' = IF NextStep(cur) = "before_alice" THEN cur + 1 ELSE cur
    /\ result' = NoResult
    /\ onchain_sent' = NoVal
    /\ alice_before' = NoVal
    /\ bob_before' = NoVal
    /\ alice_after' = NoVal
    /\ bob_after' = NoVal
    /\ lastBalance' = NoBalanceCall
    /\ UNCHANGED << scid, openTick, tick, advances, queries, sstate,
                    lastStatus, err, cause,
                    btcMined, lbtcMined, lastOpen >>

\* main() between the BTC and the L-BTC sessions: the wallet, the genesis
\* claim, 1 L-BTC to alice and to bob, one block
LiquidSetup ==
    /\ pc = "liquid_setup"
    /\ \E k \in {"ok", "cli", "noutxo"} :
         IF k = "ok" THEN /\ pc' = "before_alice"
                          /\ cur' = cur + 1
                          /\ UNCHANGED << err, cause >>
         ELSE /\ cur' = cur
              /\ IF k = "cli" THEN Abort(StderrError, "collaborator")
                 ELSE Abort(Error("context", "No anyone-can-spend UTXO found"),
                            "collaborator")
    /\ UNCHANGED << scid, openTick, tick, advances, queries, sstate,
                    lastStatus, result, onchain_sent, alice_before, bob_before,
                    alice_after, bob_after, lastBalance,
                    btcMined, lbtcMined, lastOpen >>

----------------------------------------------------------------------------

Next ==
    \/ Setup
    \/ FundChannel
    \/ OpenPoll
    \/ FundBob
    \/ BeforeAlice
    \/ BeforeBob
    \/ Submit
    \/ Advance
    \/ Query
    \/ Verify
    \/ AfterAlice
    \/ AfterBob
    \/ Report
    \/ LiquidSetup

Spec == Init /\ [][Next]_vars

TypeOK ==
    /\ pc \in {"setup", "fundchannel", "open_poll", "fund_bob", "before_alice",
               "before_bob", "submit", "advance", "query", "verify",
               "after_alice", "after_bob", "report", "liquid_setup", "done",
               "aborted"}
    /\ cur \in 0..4
    /\ tick \in 0..PollBudget
    /\ openTick \in 0..OpenBudget

----------------------------------------------------------------------------
(* Properties                                                              *)

\* the session main() is in has returned a SwapResult and main() is past
\* its checks of the settlement transaction
PastVerify == pc \in {"after_alice", "after_bob", "report"}

\* C1: in every session that returned a result and whose checks main() has
\* passed, the value of output 0 of the settlement transaction was decoded
\* and equals amount + premium (a difference stops main() with a failure).
C1_SettlementChecked ==
    PastVerify => /\ onchain_sent # NoVal
                  /\ onchain_sent = Amount + result.premium

\* C2: when main() reports a session, the channel balance of alice after the
\* session is the balance before it minus the amount (swap-out) or plus the
\* amount (swap-in); any other delta stops main() with a failure.
C2_ChannelDeltaAsserted ==
    pc = "report" =>
        alice_after = alice_before + (IF IsOut(cur) THEN -Amount ELSE Amount)

\* C3: the loop counters never pass the budget of 30; and once the 30th
\* status query of a session has answered with a state that is not a claimed
\* one, the session is Failed, main() has ended with the timeout error, and
\* there is no SwapResult, no decoded output and no `after` snapshot.
C3_TimeoutOnExhaustion ==
    /\ tick <= PollBudget
    /\ advances <= PollBudget
    /\ queries <= PollBudget
    /\ (queries = PollBudget /\ lastStatus.current \in StateStrings \ ClaimedStrings)
         => /\ pc = "aborted"
            /\ err = TimeoutError
            /\ sstate[cur] = "Failed"
            /\ result = NoResult
            /\ onchain_sent = NoVal
            /\ alice_after = NoVal
            /\ bob_after = NoVal

\* a session timed out: the last of its 30 queries answered "not claimed"
C3_Witness ==
    /\ pc = "aborted"
    /\ cur = 3
    /\ queries = PollBudget
    /\ lastStatus.current = "State_SwapOutSender_AwaitTxConfirmation"
    /\ err = TimeoutError

\* C4: get_channel_balance returns a value only for a well-formed answer:
\* the call succeeded, the channel is listed and our_amount_msat is a number.
C4_BalanceErrorsPropagate ==
    lastBalance.ret.ok => lastBalance.resp.k = "ok"

\* C5: when main() has ended and some session is Failed, every session of
\* the sequence was started.
C5_RunnerContinues ==
    (pc \in {"aborted", "done"} /\ \E i \in Sessions : sstate[i] = "Failed")
        => \A j \in Sessions : sstate[j] # "NotStarted"

\* C6: the chain-advance step of a poll tick never moves the session to
\* Failed (a failed advance leaves the session where it is).
C6_AdvanceFailureNotFatal ==
    [][pc = "advance" => sstate'[cur] # "Failed"]_vars

\* C7: at most one session is active (submitted, not yet claimed or failed),
\* and a swap is submitted only when every earlier session is claimed or
\* failed.
C7_OneActiveSession ==
    /\ Cardinality({i \in Sessions : sstate[i] \in Active}) <= 1
    /\ \A i \in Sessions : sstate[i] \in Active =>
          \A j \in Sessions : j # i => sstate[j] \in Claimed \cup {"Failed", "NotStarted"}
    /\ pc = "submit" =>
          \A j \in 1..(cur - 1) : sstate[j] \in Claimed \cup {"Failed"}

\* the second session is polling after the first one was claimed
C7_Witness ==
    /\ sstate[1] \in Claimed
    /\ sstate[2] = "Pending"
    /\ pc = "query"

\* C8: no SwapResult carries a premium above the limit of the request
\* (max_premium_ppm parts per million of the amount).
C8_NoOverpay ==
    result.some => result.premium <= PremiumLimit

\* the error kind an error value of the program stands for, read as
\* favourably as the values allow
KindOf(e) ==
    IF e.at = "bail" THEN "timeout"
    ELSE IF e.at = "assert_eq" THEN "mismatch"
    ELSE IF e.at \in {"hex", "consensus"} \/ e = Error("context", "No output")
         THEN "undecodable"
    ELSE IF e = DeclinedError THEN "rejected"
    ELSE "collaborator"

\* C9: when main() has ended with a failure of one of the five causes
\* (rejected, timeout, mismatch, collaborator, undecodable), the error value
\* tells the cause: the kind of the error is the cause. KindOf is a function
\* of the error value, so two causes with one error value violate this.
C9_DistinctErrorKinds ==
    (pc = "aborted" /\ cause \in {"rejected", "timeout", "mismatch",
                                  "collaborator", "undecodable"})
        => KindOf(err) = cause

\* C10: a session returns a result exactly on a status query that answers
\* State_ClaimedPreimage or State_ClaimedCoop, within the budget, and the
\* result is the fee, premium and transaction of that status, read the same
\* way for both states.
C10_SuccessIffClaimed ==
    /\ lastStatus.current \in ClaimedStrings <=> pc = "verify"
    /\ pc = "verify" =>
          /\ queries <= PollBudget
          /\ result.some
          /\ sstate[cur] \in Claimed
          /\ result.onchain_fee = (IF lastStatus.opening_tx_fee.t = "int"
                                   THEN lastStatus.opening_tx_fee.v ELSE 0)
          /\ result.premium = (IF lastStatus.premium.t = "int"
                               THEN lastStatus.premium.v ELSE 0)
          /\ result.opening_tx_hex = lastStatus.opening_tx_hex
    /\ result.some => sstate[cur] \in Claimed

\* a cooperative claim, seen on the last query of the budget, returned a
\* result with the premium of the status
C10_Witness ==
    /\ pc = "verify"
    /\ lastStatus.current = "State_ClaimedCoop"
    /\ queries = PollBudget
    /\ result.premium = PremiumLimit
    /\ result.opening_tx_hex = Tx(<<Amount + PremiumLimit>>)

\* a session state from which the session does not move
Terminal == Claimed \cup {"Failed"}

\* the order of the session states
Rank(st) ==
    IF st = "NotStarted" THEN 0
    ELSE IF st = "Requested" THEN 1
    ELSE IF st = "Pending" THEN 2
    ELSE 3

\* C11: a session only moves forward, and once it is claimed or failed it
\* stays as it is: no step makes a further chain-advance call or status
\* query for it (the counters of its calls do not grow, main() is not put
\* back into its poll loop), and the SwapResult, once built, is not built
\* again (it is kept until it is dropped).
C11_ForwardOnly ==
    [][ /\ \A i \in Sessions :
             /\ Rank(sstate'[i]) >= Rank(sstate[i])
             /\ sstate[i] \in Terminal => sstate'[i] = sstate[i]
        /\ (cur \in Sessions /\ sstate[cur] \in Terminal) =>
             /\ advances' <= advances
             /\ queries' <= queries
             /\ btcMined' <= btcMined
             /\ lbtcMined' <= lbtcMined
             /\ cur' = cur => pc' \notin {"advance", "query"}
        /\ result.some => result' \in {result, NoResult}
      ]_vars

\* main() has gone on after a claimed session: its checks are passed and
\* the second session is claimed as well
C11_Witness ==
    /\ pc = "report"
    /\ cur = 2
    /\ sstate[1] \in Claimed
    /\ sstate[2] = "ClaimedCoop"
    /\ result.some

\* C12: the fee and the premium of every SwapResult are not negative, and
\* main() never ends in an arithmetic overflow of amount + premium.
C12_NonNegativeOutcome ==
    /\ result.some => /\ result.onchain_fee >= 0
                      /\ result.premium >= 0
    /\ err.at # "panic"

\* C13: in a poll loop every tick is one advance call for one block, then
\* one status query: the advances are the queries or one more, a query is
\* made only after the advance of its tick, the blocks produced are one per
\* advance, and neither count passes 30.
C13_TickShape ==
    /\ advances - queries \in {0, 1}
    /\ advances <= PollBudget
    /\ queries <= PollBudget
    /\ pc = "advance" => advances = tick /\ queries = tick
    /\ pc = "query" => advances = tick + 1 /\ queries = tick
    /\ pc \in {"advance", "query", "verify"} =>
          btcMined + lbtcMined = advances
    /\ queries > 0 => advances > 0

\* the last query of the budget is about to be made, after 30 advances
C13_Witness ==
    /\ pc = "query"
    /\ cur = 4
    /\ advances = PollBudget
    /\ queries = PollBudget - 1
    /\ lbtcMined = PollBudget

ChannelTimeoutError == Error("bail", "Timeout waiting for channel")

\* C14 as stated: open_channel is a poll-and-advance loop like a swap
\* session, every iteration of its loop that goes round again advances the
\* base chain.
C14_AdvancesEachTick ==
    [][(pc = "open_poll" /\ openTick' = openTick + 1) => btcMined' > btcMined]_vars

\* C14, amended: open_channel advances the base chain once, by six blocks,
\* before its loop; an iteration of the loop only queries listfunds (and
\* sleeps) and produces no block. It returns a channel id exactly on an
\* answer that lists the channel of the funding transaction in state
\* CHANNELD_NORMAL with a short channel id, and after 60 iterations without
\* such an answer it fails with the timeout error and no channel id.
C14_OpenChannel ==
    /\ openTick <= OpenBudget
    /\ pc = "open_poll" => /\ btcMined = OpenConfirmations
                           /\ lbtcMined = 0
                           /\ scid = ""
                           /\ openTick < OpenBudget
    /\ lastOpen = "normal" <=> pc = "fund_bob"
    /\ pc = "fund_bob" => scid # "" /\ btcMined = OpenConfirmations
    /\ lastOpen \in {"fail", "badjson", "nomatch", "notnormal", "noscid"}
          => scid = ""
    /\ (lastOpen \in {"nomatch", "notnormal"} /\ openTick = OpenBudget)
          => /\ pc = "aborted"
             /\ err = ChannelTimeoutError
             /\ scid = ""

\* open_channel has returned the channel id on a CHANNELD_NORMAL answer,
\* with the six blocks of before the loop and no more
C14_Witness ==
    /\ pc = "fund_bob"
    /\ lastOpen = "normal"
    /\ scid = "scid"
    /\ btcMined = OpenConfirmations

\* C15: the ticks of a BTC session produce their blocks on the base chain
\* and none on the sidechain, the ticks of an L-BTC session produce theirs
\* on the sidechain and none on the base chain.
C15_SettlementLedgerOnly ==
    pc \in {"advance", "query", "verify"} =>
        IF IsBtc(cur)
        THEN btcMined = BlocksPerTick * advances /\ lbtcMined = 0
        ELSE lbtcMined = BlocksPerTick * advances /\ btcMined = 0

\* an L-BTC session has produced three blocks, all of them on the sidechain
C15_Witness ==
    /\ cur = 3
    /\ pc = "query"
    /\ lbtcMined = 3
    /\ btcMined = 0

\* C16: the poll loop knows no failure status. An answer that is a cancelled
\* swap or has no "current" leaves the session polling while iterations are
\* left; the timeout error is raised only after 30 advances and 30 queries,
\* and a session whose 30th answer is such a status ends with that same
\* timeout error.
C16_NoFailureStatus ==
    /\ (lastStatus.current \in {"State_SwapCanceled", ""} /\ queries < PollBudget)
          => /\ pc = "advance"
             /\ sstate[cur] = "Pending"
    /\ err = TimeoutError => /\ advances = PollBudget
                             /\ queries = PollBudget
                             /\ tick = PollBudget
    /\ (lastStatus.current \in {"State_SwapCanceled", ""} /\ queries = PollBudget)
          => /\ pc = "aborted"
             /\ err = TimeoutError

\* a swap the counterpart cancelled: the session made its 30 advances and
\* 30 queries and ended with the timeout error
C16_Witness ==
    /\ pc = "aborted"
    /\ cause = "rejected"
    /\ lastStatus.current = "State_SwapCanceled"
    /\ advances = PollBudget
    /\ queries = PollBudget
    /\ err = TimeoutError

====
